---------------------------- MODULE Spec2Model ----------------------------
(***************************************************************************)
(* A model of liquidbounce_lite: the injected library's entry point        *)
(* (src/src/lib.rs), the JVM locator (src/src/sdk/jni.rs) and the remapped *)
(* JNI wrapper layer (src/src/sdk/game/mod.rs).                            *)
(*                                                                         *)
(* Two specifications share the variables:                                 *)
(*   SpecInject  DllMain, the threads it spawns (main_thread/start_client) *)
(*               and callers of retrieve_java_vm;                          *)
(*   SpecSdk     threads calling the typed wrappers, whose macros go       *)
(*               through the lazily initialised MAPPINGS table.            *)
(***************************************************************************)
EXTENDS Integers, Sequences, FiniteSets, TLC

VARIABLES
    started,      \* number of thread slots started so far (lib.rs / jni.rs)
    dllReason,    \* <<>> before the first DllMain call, then <<call_reason>>
    dllRet,       \* <<>> before the first DllMain call, then <<returned bool>>
    th,           \* slot -> state of a thread running main_thread or retrieve_java_vm
    subscriberSet,\* tracing's global default subscriber has been installed
    crashed,      \* the host process died (call through a null function pointer)
    fileContent,  \* what mappings.tiny holds on disk: "bad" or the name of a table
    onceState,    \* lazy_static's Once guarding MAPPINGS
    mappings,     \* the value stored in MAPPINGS: "none" or the name of a table
    parseCount,   \* how many times parse_tiny_v2 has been entered
    sdk,          \* SDK caller thread -> its state
    last          \* the wrapper call that returned last

injectVars == <<started, dllReason, dllRet, th, subscriberSet, crashed>>
sdkVars    == <<fileContent, onceState, mappings, parseCount, sdk, last>>
vars       == <<started, dllReason, dllRet, th, subscriberSet, crashed,
                fileContent, onceState, mappings, parseCount, sdk, last>>

(***************************************************************************)
(* Bounds                                                                  *)
(***************************************************************************)
MaxThreads == 2      \* thread slots of SpecInject
MaxVMs == 1          \* largest count JNI_GetCreatedJavaVMs reports
NumSdkThreads == 2   \* threads calling the wrappers in SpecSdk
MaxParse == 2        \* cap on the parse counter

(***************************************************************************)
(* Program constants                                                       *)
(***************************************************************************)
DLL_PROCESS_DETACH == 0
DLL_PROCESS_ATTACH == 1
DLL_THREAD_ATTACH == 2
DLL_THREAD_DETACH == 3
BufLen == 1

CallReasons == {DLL_PROCESS_DETACH, DLL_PROCESS_ATTACH, DLL_THREAD_ATTACH, DLL_THREAD_DETACH}

Slots == 1..MaxThreads

(***************************************************************************)
(* lib.rs / jni.rs : thread state                                          *)
(***************************************************************************)
NoJni == << >>

FreshThread(routine, pc) ==
    [ routine |-> routine,      \* "main_thread" or "retrieve_java_vm"
      pc |-> pc,
      fnptr |-> "unset",        \* jni_get_created_java_vms_fn_ptr: "unset", "null", "fn"
      jvm_instance |-> "null",  \* the raw *mut JavaVM: "null" or "vm"
      number_of_jvms |-> 0,
      enumCalled |-> FALSE,     \* the function pointer has been called
      enumValid |-> FALSE,      \* ... and it was the real export that answered
      wrapCalled |-> FALSE,     \* JavaVM::from_raw has been invoked
      attachCalled |-> FALSE,   \* attach_current_thread_as_daemon has been invoked
      result |-> "none",        \* what start_client / retrieve_java_vm returned
      errLogged |-> FALSE,      \* main_thread logged "Failed to start the client"
      jni |-> NoJni ]           \* managed lookups issued: <<[fn, name, remapped]>>

Idle == FreshThread("none", "unstarted")

Running(t) == /\ ~crashed
              /\ t \in 1..started

Set(t, rec) == th' = [th EXCEPT ![t] = rec]

\* The routine's Result is returned to its caller: main_thread inspects it,
\* a caller of retrieve_java_vm just receives it.
ReturnWith(r, res) ==
    [r EXCEPT !.result = res,
              !.pc = IF r.routine = "main_thread" THEN "m_report" ELSE "returned"]

Min(a, b) == IF a < b THEN a ELSE b

(***************************************************************************)
(* lib.rs : DllMain                                                        *)
(***************************************************************************)
\* (variant: a thread is spawned on detach as well)
SpawnsThreadOnDetach(call_reason) ==
    call_reason \in {DLL_PROCESS_ATTACH, DLL_PROCESS_DETACH}

\* match call_reason { DLL_PROCESS_ATTACH => { thread::spawn(main_thread); }, .. }
SpawnsThread(call_reason) == call_reason = DLL_PROCESS_ATTACH

\* "Return true to indicate successful handling of the DLL entry point."
DllMainReturn(call_reason) == TRUE

DllMain(call_reason) ==
    /\ ~crashed
    /\ SpawnsThread(call_reason) => started < MaxThreads
    /\ dllReason' = <<call_reason>>
    /\ dllRet' = <<DllMainReturn(call_reason)>>
    /\ IF SpawnsThread(call_reason)
         THEN /\ started' = started + 1
              /\ th' = [th EXCEPT ![started + 1] = FreshThread("main_thread", "m_init")]
         ELSE UNCHANGED <<started, th>>
    /\ UNCHANGED <<subscriberSet, crashed>>
    /\ UNCHANGED sdkVars

\* Some other native thread of the host calls sdk::jni::retrieve_java_vm.
CallRetrieveJavaVm ==
    /\ ~crashed
    /\ started < MaxThreads
    /\ started' = started + 1
    /\ th' = [th EXCEPT ![started + 1] = FreshThread("retrieve_java_vm", "l_module")]
    /\ UNCHANGED <<dllReason, dllRet, subscriberSet, crashed>>
    /\ UNCHANGED sdkVars

(***************************************************************************)
(* lib.rs : main_thread, before start_client                               *)
(***************************************************************************)
\* tracing::subscriber::set_global_default(subscriber).expect(..): the call
\* fails when a global default is already installed, and expect panics.
SetSubscriber(t) ==
    /\ Running(t)
    /\ th[t].pc = "m_init"
    /\ IF subscriberSet
         THEN /\ Set(t, [th[t] EXCEPT !.pc = "panicked"])
              /\ UNCHANGED subscriberSet
         ELSE /\ Set(t, [th[t] EXCEPT !.pc = "m_console"])
              /\ subscriberSet' = TRUE
    /\ UNCHANGED <<started, dllReason, dllRet, crashed>>
    /\ UNCHANGED sdkVars

\* AllocConsole: a failure is logged and otherwise ignored.
AllocateConsole(t) ==
    /\ Running(t)
    /\ th[t].pc = "m_console"
    /\ Set(t, [th[t] EXCEPT !.pc = "l_module"])
    /\ UNCHANGED <<started, dllReason, dllRet, subscriberSet, crashed>>
    /\ UNCHANGED sdkVars

(***************************************************************************)
(* The locator sequence: start_client (lib.rs 50-68) and retrieve_java_vm  *)
(* (jni.rs 19-39) are the same statements.                                 *)
(***************************************************************************)
\* let jvm_dll_handle = unsafe { GetModuleHandleA(s!("jvm.dll")) }?;
GetModuleHandle(t) ==
    /\ Running(t)
    /\ th[t].pc = "l_module"
    /\ \E found \in BOOLEAN :
          Set(t, IF found THEN [th[t] EXCEPT !.pc = "l_symbol"]
                          ELSE ReturnWith(th[t], "Err_GetModuleHandleA"))
    /\ UNCHANGED <<started, dllReason, dllRet, subscriberSet, crashed>>
    /\ UNCHANGED sdkVars

\* GetProcAddress(..) followed by std::mem::transmute: the address, null or
\* not, becomes the function pointer.
AfterGetProcAddress(r, addr) == [r EXCEPT !.fnptr = addr, !.pc = "l_enum"]

GetProcAddress(t) ==
    /\ Running(t)
    /\ th[t].pc = "l_symbol"
    /\ \E addr \in {"null", "fn"} : Set(t, AfterGetProcAddress(th[t], addr))
    /\ UNCHANGED <<started, dllReason, dllRet, subscriberSet, crashed>>
    /\ UNCHANGED sdkVars

\* get_created_java_vms(&mut jvm_instance, 1, &mut number_of_jvms): the export
\* stores at most buf_len instances and the total count; the return code is
\* only traced.
Enumerated(r, n, valid) ==
    [r EXCEPT !.number_of_jvms = n,
              !.jvm_instance = IF Min(n, BufLen) >= 1 THEN "vm" ELSE "null",
              !.enumCalled = TRUE,
              !.enumValid = valid,
              !.pc = "l_wrap"]

GetCreatedJavaVMs(t) ==
    /\ Running(t)
    /\ th[t].pc = "l_enum"
    /\ \/ /\ th[t].fnptr = "fn"
          /\ \E n \in 0..MaxVMs : Set(t, Enumerated(th[t], n, TRUE))
          /\ UNCHANGED crashed
       \/ \* a call through a null function pointer is undefined: the process
          \* faults ...
          /\ th[t].fnptr = "null"
          /\ Set(t, [th[t] EXCEPT !.enumCalled = TRUE, !.pc = "faulted"])
          /\ crashed' = TRUE
       \/ \* ... or the call comes back having written anything
          /\ th[t].fnptr = "null"
          /\ \E n \in 0..MaxVMs : Set(t, Enumerated(th[t], n, FALSE))
          /\ UNCHANGED crashed
    /\ UNCHANGED <<started, dllReason, dllRet, subscriberSet>>
    /\ UNCHANGED sdkVars

\* let jvm = unsafe { JavaVM::from_raw(jvm_instance as _)? };
\* from_raw answers Err(NullPtr) for a null pointer.
AfterFromRaw(r) ==
    IF r.jvm_instance = "null"
    THEN ReturnWith([r EXCEPT !.wrapCalled = TRUE], "Err_NullPtr")
    ELSE [r EXCEPT !.wrapCalled = TRUE, !.pc = "l_attach"]

FromRaw(t) ==
    /\ Running(t)
    /\ th[t].pc = "l_wrap"
    /\ Set(t, AfterFromRaw(th[t]))
    /\ UNCHANGED <<started, dllReason, dllRet, subscriberSet, crashed>>
    /\ UNCHANGED sdkVars

\* jvm.attach_current_thread_as_daemon()?;  retrieve_java_vm then returns Ok(jvm)
AttachDaemon(t) ==
    /\ Running(t)
    /\ th[t].pc = "l_attach"
    /\ \E ok \in BOOLEAN :
          LET r == [th[t] EXCEPT !.attachCalled = TRUE] IN
          Set(t, IF ~ok THEN ReturnWith(r, "Err_Attach")
                 ELSE IF r.routine = "retrieve_java_vm" THEN ReturnWith(r, "Ok")
                 ELSE [r EXCEPT !.pc = "s_env"])
    /\ UNCHANGED <<started, dllReason, dllRet, subscriberSet, crashed>>
    /\ UNCHANGED sdkVars

(***************************************************************************)
(* lib.rs : the rest of start_client                                       *)
(***************************************************************************)
\* A managed lookup as it reaches the JNI environment.  remapped tells
\* whether the names were obtained from MAPPINGS.remap_* or are literals.
JniCall(fn, name, sig, remapped) ==
    [fn |-> fn, name |-> name, sig |-> sig, remapped |-> remapped]

\* let mut jvm_environment = jvm.get_env()?;
GetEnv(t) ==
    /\ Running(t)
    /\ th[t].pc = "s_env"
    /\ \E ok \in BOOLEAN :
          Set(t, IF ok THEN [th[t] EXCEPT !.pc = "s_find_class"]
                       ELSE ReturnWith(th[t], "Err_GetEnv"))
    /\ UNCHANGED <<started, dllReason, dllRet, subscriberSet, crashed>>
    /\ UNCHANGED sdkVars

\* jvm_environment.find_class("net/minecraft/client/MinecraftClient")?
StartClientFindClass ==
    JniCall("find_class", "net/minecraft/client/MinecraftClient", << >>, FALSE)

FindClientClass(t) ==
    /\ Running(t)
    /\ th[t].pc = "s_find_class"
    /\ \E ok \in BOOLEAN :
          LET r == [th[t] EXCEPT !.jni = Append(@, StartClientFindClass)] IN
          Set(t, IF ok THEN [r EXCEPT !.pc = "s_field_id"]
                       ELSE ReturnWith(r, "Err_FindClass"))
    /\ UNCHANGED <<started, dllReason, dllRet, subscriberSet, crashed>>
    /\ UNCHANGED sdkVars

\* jvm_environment.get_static_field_id(minecraft_client_class, "instance",
\*     "Lnet/minecraft/client/MinecraftClient;")?;  then Ok(())
StartClientFieldId ==
    JniCall("get_static_field_id", "instance",
            <<[k |-> "L", v |-> "net/minecraft/client/MinecraftClient"]>>, FALSE)

GetInstanceFieldId(t) ==
    /\ Running(t)
    /\ th[t].pc = "s_field_id"
    /\ \E ok \in BOOLEAN :
          LET r == [th[t] EXCEPT !.jni = Append(@, StartClientFieldId)] IN
          Set(t, ReturnWith(r, IF ok THEN "Ok" ELSE "Err_GetStaticFieldId"))
    /\ UNCHANGED <<started, dllReason, dllRet, subscriberSet, crashed>>
    /\ UNCHANGED sdkVars

(***************************************************************************)
(* lib.rs : main_thread, after start_client                                *)
(***************************************************************************)
\* if let Err(e) = start_client() { error!("Failed to start the client") }
AfterStartClient(r) ==
    [r EXCEPT !.errLogged = (r.result # "Ok"), !.pc = "m_free"]

ReportResult(t) ==
    /\ Running(t)
    /\ th[t].pc = "m_report"
    /\ Set(t, AfterStartClient(th[t]))
    /\ UNCHANGED <<started, dllReason, dllRet, subscriberSet, crashed>>
    /\ UNCHANGED sdkVars

\* let _ = unsafe { FreeConsole() };  and main_thread returns: the thread ends.
AfterFreeConsole(r) == [r EXCEPT !.pc = "exited"]

FreeConsoleAndReturn(t) ==
    /\ Running(t)
    /\ th[t].pc = "m_free"
    /\ Set(t, AfterFreeConsole(th[t]))
    /\ UNCHANGED <<started, dllReason, dllRet, subscriberSet, crashed>>
    /\ UNCHANGED sdkVars

(***************************************************************************)
(* sdk/game/mod.rs : names                                                 *)
(***************************************************************************)
MinecraftClientCls == "net/minecraft/client/MinecraftClient"
ClientPlayerEntityCls == "net/minecraft/client/network/ClientPlayerEntity"
EntityCls == "net/minecraft/entity/Entity"
Vec3dCls == "net/minecraft/util/math/Vec3d"
PositionCls == "net/minecraft/util/math/Position"

\* A type descriptor is a sequence of tokens: a character of the descriptor
\* grammar, or an object type L<class>; .
Ch(c) == [k |-> "c", v |-> c]
Obj(cls) == [k |-> "L", v |-> cls]

SigRetMinecraftClient == <<Ch("("), Ch(")"), Obj(MinecraftClientCls)>>   \* ()Lnet/minecraft/client/MinecraftClient;
SigPlayerField == <<Obj(ClientPlayerEntityCls)>>                         \* Lnet/minecraft/client/network/ClientPlayerEntity;
SigRetVec3d == <<Ch("("), Ch(")"), Obj(Vec3dCls)>>                       \* ()Lnet/minecraft/util/math/Vec3d;
SigRetDouble == <<Ch("("), Ch(")"), Ch("D")>>                            \* ()D
SigRetBool == <<Ch("("), Ch(")"), Ch("Z")>>                              \* ()Z
SigVec3dVoid == <<Ch("("), Obj(Vec3dCls), Ch(")"), Ch("V")>>             \* (Lnet/minecraft/util/math/Vec3d;)V
SigDDDVoid == <<Ch("("), Ch("D"), Ch("D"), Ch("D"), Ch(")"), Ch("V")>>   \* (DDD)V
SigVec3dVec3d == <<Ch("("), Obj(Vec3dCls), Ch(")"), Obj(Vec3dCls)>>      \* (Lnet/minecraft/util/math/Vec3d;)Lnet/minecraft/util/math/Vec3d;
SigDDDVec3d == <<Ch("("), Ch("D"), Ch("D"), Ch("D"), Ch(")"), Obj(Vec3dCls)>>  \* (DDD)Lnet/minecraft/util/math/Vec3d;

\* One entry per public function of the wrapper types: the macro it expands,
\* the literal names it passes, the wrapper it is called on and the wrapper
\* (or plain value) it returns.
Site(macro, cls, member, sig, self, ret) ==
    [macro |-> macro, cls |-> cls, member |-> member, sig |-> sig,
     self |-> self, ret |-> ret]

OpInfo(op) ==
    CASE op = "MinecraftClient::get_instance" ->
           Site("call_static_method", MinecraftClientCls, "getInstance", SigRetMinecraftClient, "JNIEnv", "MinecraftClient")
      [] op = "MinecraftClient::get_player" ->
           Site("get_field", MinecraftClientCls, "player", SigPlayerField, "MinecraftClient", "ClientPlayerEntity")
      [] op = "ClientPlayerEntity::as_entity" ->
           Site("none", "", "", << >>, "ClientPlayerEntity", "Entity")
      [] op = "Entity::get_pos" ->
           Site("call_method", EntityCls, "getPos", SigRetVec3d, "Entity", "Vec3d")
      [] op = "Entity::get_x" ->
           Site("call_method", EntityCls, "getX", SigRetDouble, "Entity", "jdouble")
      [] op = "Entity::get_y" ->
           Site("call_method", EntityCls, "getY", SigRetDouble, "Entity", "jdouble")
      [] op = "Entity::get_z" ->
           Site("call_method", EntityCls, "getZ", SigRetDouble, "Entity", "jdouble")
      [] op = "Entity::get_velocity" ->
           Site("call_method", EntityCls, "getVelocity", SigRetVec3d, "Entity", "Vec3d")
      [] op = "Entity::set_velocity" ->
           Site("call_method", EntityCls, "setVelocity", SigVec3dVoid, "Entity", "unit")
      [] op = "Entity::add_velocity" ->
           Site("call_method", EntityCls, "addVelocity", SigVec3dVoid, "Entity", "unit")
      [] op = "Entity::is_on_ground" ->
           Site("call_method", EntityCls, "isOnGround", SigRetBool, "Entity", "bool")
      [] op = "Vec3d::new_obj" ->
           Site("new", Vec3dCls, "<init>", SigDDDVoid, "JNIEnv", "Vec3d")
      [] op = "Vec3d::normalize" ->
           Site("call_method", Vec3dCls, "normalize", SigRetVec3d, "Vec3d", "Vec3d")
      [] op = "Vec3d::add" ->
           Site("call_method", Vec3dCls, "add", SigVec3dVec3d, "Vec3d", "Vec3d")
      [] op = "Vec3d::add_xyz" ->
           Site("call_method", Vec3dCls, "add", SigDDDVec3d, "Vec3d", "Vec3d")
      [] op = "Vec3d::as_position" ->
           Site("none", "", "", << >>, "Vec3d", "Position")
      [] op = "Position::get_x" ->
           Site("call_method", PositionCls, "getX", SigRetDouble, "Position", "jdouble")
      [] op = "Position::get_y" ->
           Site("call_method", PositionCls, "getY", SigRetDouble, "Position", "jdouble")
      [] op = "Position::get_z" ->
           Site("call_method", PositionCls, "getZ", SigRetDouble, "Position", "jdouble")
      [] OTHER -> Site("none", "", "", << >>, "", "")

ViewOps == {"ClientPlayerEntity::as_entity", "Vec3d::as_position"}

MacroOps == {"MinecraftClient::get_instance", "MinecraftClient::get_player",
             "Entity::get_pos", "Entity::get_x", "Entity::get_y", "Entity::get_z",
             "Entity::get_velocity", "Entity::set_velocity", "Entity::add_velocity",
             "Entity::is_on_ground", "Vec3d::new_obj", "Vec3d::normalize",
             "Vec3d::add", "Vec3d::add_xyz",
             "Position::get_x", "Position::get_y", "Position::get_z"}

WrapperTypes == {"MinecraftClient", "ClientPlayerEntity", "Entity", "Vec3d", "Position"}

(***************************************************************************)
(* The mapping file and the Mapping it parses to (yarn_remapper)           *)
(***************************************************************************)
NoEntries == [x \in {} |-> ""]

\* A mapping file without directives for any name the wrappers use.
EmptyTable == [classes |-> NoEntries, methods |-> NoEntries, fields |-> NoEntries]

\* A mapping file renaming some of the classes and members and not others.
PartialTable ==
    [classes |-> (MinecraftClientCls :> "class_310") @@ (EntityCls :> "class_1297"),
     methods |-> (<<MinecraftClientCls, "getInstance", SigRetMinecraftClient>> :> "method_1551")
                 @@ (<<EntityCls, "getPos", SigRetVec3d>> :> "method_19538")
                 @@ (<<EntityCls, "isOnGround", SigRetBool>> :> "method_24828")
                 @@ (<<Vec3dCls, "add", SigDDDVec3d>> :> "method_1031"),
     fields |-> (<<MinecraftClientCls, "player", SigPlayerField>> :> "field_1724")]

Table(name) == IF name = "partial" THEN PartialTable ELSE EmptyTable

FileContents == {"bad", "empty", "partial"}

\* Option<String>
None == << >>
Some(x) == <<x>>

remap_class(table, name) ==
    IF name \in DOMAIN table.classes THEN Some(table.classes[name]) ELSE None

remap_method(table, cls, name, sig) ==
    IF <<cls, name, sig>> \in DOMAIN table.methods
    THEN Some(table.methods[<<cls, name, sig>>]) ELSE None

remap_field(table, cls, name, sig) ==
    IF <<cls, name, sig>> \in DOMAIN table.fields
    THEN Some(table.fields[<<cls, name, sig>>]) ELSE None

\* Every object type of the descriptor is renamed when its class has an
\* entry and kept otherwise; the other characters are copied.
remap_descriptor(table, sig) ==
    [i \in 1..Len(sig) |->
        IF sig[i].k = "L"
        THEN LET r == remap_class(table, sig[i].v)
             IN  Obj(IF r = None THEN sig[i].v ELSE r[1])
        ELSE sig[i]]

(***************************************************************************)
(* sdk/game/mod.rs : the macros                                            *)
(***************************************************************************)
\* Option::unwrap_or
unwrap_or(opt, default) == IF opt = None THEN default ELSE opt[1]

\* (variant: unwrap_or_default instead of unwrap_or)
ClassNameOrDefault(table, cls) ==
    IF remap_class(table, cls) = None THEN "" ELSE remap_class(table, cls)[1]

\* class!: MAPPINGS.remap_class($class).unwrap_or($class.to_string())
ClassName(table, cls) == unwrap_or(remap_class(table, cls), cls)

\* MAPPINGS.remap_method($class, $method, $sig).unwrap_or($method.to_string())
MethodName(table, cls, method, sig) ==
    unwrap_or(remap_method(table, cls, method, sig), method)

\* MAPPINGS.remap_field($class, $field, $sig).unwrap_or($field.to_string())
FieldName(table, cls, field, sig) ==
    unwrap_or(remap_field(table, cls, field, sig), field)

\* $env.find_class(..) as class! issues it
FindClassCall(table, site) ==
    JniCall("find_class", ClassName(table, site.cls), << >>, TRUE)

\* The managed call a macro ends with.
MemberCall(table, site) ==
    CASE site.macro = "call_method" ->
           JniCall("call_method",
                   MethodName(table, site.cls, site.member, site.sig),
                   remap_descriptor(table, site.sig), TRUE)
      [] site.macro = "call_static_method" ->
           JniCall("call_static_method",
                   MethodName(table, site.cls, site.member, site.sig),
                   remap_descriptor(table, site.sig), TRUE)
      [] site.macro = "get_field" ->
           JniCall("get_field",
                   FieldName(table, site.cls, site.member, site.sig),
                   remap_descriptor(table, site.sig), TRUE)
      [] site.macro = "new" ->
           JniCall("new_object", site.member,
                   remap_descriptor(table, site.sig), TRUE)

\* call_static_method! and new! expand class! first, so find_class precedes
\* the member call.
UsesClassMacro(site) == site.macro \in {"call_static_method", "new"}

(***************************************************************************)
(* sdk/game/mod.rs : wrappers and results                                  *)
(***************************************************************************)
SdkThreads == 1..NumSdkThreads

Wrapper(type, jobj, env) == [type |-> type, jobj |-> jobj, env |-> env]

NoRet == [kind |-> "none", type |-> "", jobj |-> "null", env |-> 0]
ErrRet == [kind |-> "Err", type |-> "", jobj |-> "null", env |-> 0]
OkWrapper(type, jobj, env) == [kind |-> "Ok", type |-> type, jobj |-> jobj, env |-> env]
OkValue(type) == [kind |-> "Ok", type |-> type, jobj |-> "null", env |-> 0]

\* What the managed side can answer to the member call of a site: an exception
\* (Err), a reference, possibly null, or a primitive / void value.  new_object
\* turns a null result into an error itself.
Outcomes(site) ==
    IF site.macro = "new" THEN {"Err", "obj1"}
    ELSE IF site.ret \in WrapperTypes THEN {"Err", "null", "obj1"}
    ELSE {"Err", "val"}

\* `?` after the call, then .l()? / .d()? / .z()? and Type::new(obj, env):
\* the reference is wrapped as it came back.
WrapResult(site, env, out) ==
    IF out = "Err" THEN ErrRet
    ELSE IF site.ret \in WrapperTypes THEN OkWrapper(site.ret, out, env)
    ELSE OkValue(site.ret)

\* ClientPlayerEntity::as_entity: Ok(Entity::new(self.jobj, self.env.unsafe_clone()))
AsEntity(w) == OkWrapper("Entity", w.jobj, w.env)

\* (variant: the view is built around a newly obtained reference)
AsPositionFresh(w) == OkWrapper("Position", "obj1", w.env)

\* Vec3d::as_position: Ok(Position::new(self.jobj, self.env.unsafe_clone()))
AsPosition(w) == OkWrapper("Position", w.jobj, w.env)

(***************************************************************************)
(* sdk/game/mod.rs : MAPPINGS, a lazy_static guarded by a Once              *)
(***************************************************************************)
\* (variant: a failed initialisation is retried by the next access)
MustRunInitRetrying(state) == state \in {"incomplete", "poisoned"}

\* (variant: an access does not wait for a running initialiser)
CanProceedUnsynchronised(state) == state \in {"complete", "running"}

\* The first access finds the Once incomplete and runs the initialiser.
MustRunInit(state) == state = "incomplete"

\* An access goes on to read the value only when the Once is complete.
CanProceed(state) == state = "complete"

\* parse_tiny_v2(Path::new("mappings.tiny")): Some(table) or None on failure
parse_tiny_v2(content) == IF content = "bad" THEN None ELSE Some(content)

\* A caller thread: where it is inside a wrapper function, which function
\* (known to the model from the first managed call on) and the managed calls
\* the function has issued so far.
FreshSdk == [pc |-> "idle", op |-> "none", jni |-> NoJni]

\* The wrapper call that returned last: who called what on which wrapper,
\* the Result it got and the managed calls the function issued.
Returned(t, op, self, ret, jni) ==
    [t |-> t, op |-> op, self |-> self, ret |-> ret, jni |-> jni]

NoCall == Returned(0, "none", Wrapper("", "null", 0), NoRet, NoJni)

SetSdk(t, rec) == sdk' = [sdk EXCEPT ![t] = rec]

\* The wrapper a function is called on; get_instance and new_obj take the
\* caller's JNIEnv instead.
SelfOf(t, op) ==
    Wrapper(OpInfo(op).self, IF OpInfo(op).self = "JNIEnv" THEN "null" ELSE "obj1", t)

\* A caller enters one of the wrapper functions that expand a macro.  Every
\* one of them starts by evaluating a MAPPINGS.<lookup> argument, so which
\* function it is first shows at its first managed call.
EnterWrapper(t) ==
    /\ sdk[t].pc = "idle"
    /\ SetSdk(t, [FreshSdk EXCEPT !.pc = "deref"])
    /\ UNCHANGED <<fileContent, onceState, mappings, parseCount, last>>
    /\ UNCHANGED injectVars

\* as_entity / as_position: no macro, the function returns at once.
Viewed(op, w) ==
    IF op = "ClientPlayerEntity::as_entity" THEN AsEntity(w) ELSE AsPosition(w)

Reinterpret(t, op, w) ==
    /\ sdk[t].pc = "idle"
    /\ w.type = OpInfo(op).self
    /\ last' = Returned(t, op, w, Viewed(op, w), NoJni)
    /\ UNCHANGED <<fileContent, onceState, mappings, parseCount, sdk>>
    /\ UNCHANGED injectVars

\* The first MAPPINGS.<lookup> of the macro dereferences the lazy static.
Deref(t) ==
    /\ sdk[t].pc = "deref"
    /\ \/ /\ MustRunInit(onceState)
          /\ parseCount < MaxParse
          /\ onceState' = "running"
          /\ parseCount' = parseCount + 1
          /\ SetSdk(t, [sdk[t] EXCEPT !.pc = "init"])
       \/ /\ ~MustRunInit(onceState)
          /\ CanProceed(onceState)
          /\ SetSdk(t, [sdk[t] EXCEPT !.pc = "lookup"])
          /\ UNCHANGED <<onceState, parseCount>>
       \/ \* a poisoned Once panics the caller; a running one blocks it
          /\ ~MustRunInit(onceState)
          /\ ~CanProceed(onceState)
          /\ onceState = "poisoned"
          /\ SetSdk(t, [sdk[t] EXCEPT !.pc = "panicked"])
          /\ UNCHANGED <<onceState, parseCount>>
    /\ UNCHANGED <<fileContent, mappings, last>>
    /\ UNCHANGED injectVars

\* The initialiser: parse_tiny_v2(..).unwrap().  On success the value is
\* stored and the Once completes; on failure unwrap panics inside call_once,
\* which poisons the Once.
FinishInit(t) ==
    /\ sdk[t].pc = "init"
    /\ LET parsed == parse_tiny_v2(fileContent) IN
       IF parsed = None
       THEN /\ onceState' = "poisoned"
            /\ SetSdk(t, [sdk[t] EXCEPT !.pc = "panicked"])
            /\ UNCHANGED mappings
       ELSE /\ onceState' = "complete"
            /\ mappings' = parsed[1]
            /\ SetSdk(t, [sdk[t] EXCEPT !.pc = "lookup"])
    /\ UNCHANGED <<fileContent, parseCount, last>>
    /\ UNCHANGED injectVars

\* class!($env, $class): find_class with the remapped name, then `?`.
IssueFindClass(t, op) ==
    /\ sdk[t].pc = "lookup"
    /\ UsesClassMacro(OpInfo(op))
    /\ LET issued == <<FindClassCall(Table(mappings), OpInfo(op))>> IN
       \/ /\ SetSdk(t, [pc |-> "call", op |-> op, jni |-> issued])
          /\ UNCHANGED last
       \/ /\ SetSdk(t, FreshSdk)
          /\ last' = Returned(t, op, SelfOf(t, op), ErrRet, issued)
    /\ UNCHANGED <<fileContent, onceState, mappings, parseCount>>
    /\ UNCHANGED injectVars

\* The member call of the macro, `?`, and the wrapper function's return.
IssueCall(t, op) ==
    /\ \/ sdk[t].pc = "call" /\ op = sdk[t].op
       \/ sdk[t].pc = "lookup" /\ ~UsesClassMacro(OpInfo(op))
    /\ \E out \in Outcomes(OpInfo(op)) :
          last' = Returned(t, op, SelfOf(t, op),
                           WrapResult(OpInfo(op), SelfOf(t, op).env, out),
                           Append(sdk[t].jni, MemberCall(Table(mappings), OpInfo(op))))
    /\ SetSdk(t, FreshSdk)
    /\ UNCHANGED <<fileContent, onceState, mappings, parseCount>>
    /\ UNCHANGED injectVars

(***************************************************************************)
(* Specifications                                                          *)
(***************************************************************************)
InjectQuiet ==
    /\ started = 0
    /\ dllReason = << >>
    /\ dllRet = << >>
    /\ th = [t \in Slots |-> Idle]
    /\ subscriberSet = FALSE
    /\ crashed = FALSE

SdkQuiet(contents) ==
    /\ fileContent \in contents
    /\ onceState = "incomplete"
    /\ mappings = "none"
    /\ parseCount = 0
    /\ sdk = [t \in SdkThreads |-> FreshSdk]
    /\ last = NoCall

InitInject == InjectQuiet /\ SdkQuiet({"empty"})

NextInject ==
    \/ \E call_reason \in CallReasons : DllMain(call_reason)
    \/ CallRetrieveJavaVm
    \/ \E t \in Slots :
          \/ SetSubscriber(t)
          \/ AllocateConsole(t)
          \/ GetModuleHandle(t)
          \/ GetProcAddress(t)
          \/ GetCreatedJavaVMs(t)
          \/ FromRaw(t)
          \/ AttachDaemon(t)
          \/ GetEnv(t)
          \/ FindClientClass(t)
          \/ GetInstanceFieldId(t)
          \/ ReportResult(t)
          \/ FreeConsoleAndReturn(t)

SpecInject == InitInject /\ [][NextInject]_vars

InitSdk == InjectQuiet /\ SdkQuiet(FileContents)

ViewInputs(op) ==
    {Wrapper(OpInfo(op).self, jobj, env) : jobj \in {"null", "obj1"}, env \in SdkThreads}

NextSdk ==
    \E t \in SdkThreads :
       \/ EnterWrapper(t)
       \/ \E op \in ViewOps : \E w \in ViewInputs(op) : Reinterpret(t, op, w)
       \/ Deref(t)
       \/ FinishInit(t)
       \/ \E op \in MacroOps : IssueFindClass(t, op)
       \/ \E op \in MacroOps : IssueCall(t, op)

SpecSdk == InitSdk /\ [][NextSdk]_vars

Init == InitInject
Next == NextInject
Spec == SpecInject

(***************************************************************************)
(* Claims                                                                  *)
(***************************************************************************)

\* C1: when the enumeration call reports zero instances, the locator fails
\* with NoVmInstances and neither JavaVM::from_raw nor the daemon attach is
\* invoked in that run.
C1_ZeroVmsSkipsWrap ==
    \A t \in Slots :
       (th[t].enumValid /\ th[t].number_of_jvms = 0)
          => /\ ~th[t].wrapCalled
             /\ ~th[t].attachCalled
             /\ th[t].result \in {"none", "Err_NoVmInstances"}

\* C2: a failure during an iteration of the background thread is logged and
\* the thread goes on to the next iteration; it never exits because of it.
C2_FailureDoesNotEndThread ==
    \A t \in Slots :
       (th[t].routine = "main_thread" /\ th[t].errLogged) => th[t].pc # "exited"

\* C3: get_instance and get_player never return Ok with a wrapper around a
\* null managed reference.
C3_NoNullWrapper ==
    (last.op \in {"MinecraftClient::get_instance", "MinecraftClient::get_player"}
       /\ last.ret.kind = "Ok")
       => last.ret.jobj # "null"

\* C4: when the by-name lookup of the export returns no address the locator
\* fails with SymbolNotFound and the function pointer is never called; the
\* enumeration call happens only after a successful symbol resolution.
C4_NullSymbolNotCalled ==
    \A t \in Slots :
       /\ th[t].fnptr = "null"
            => /\ ~th[t].enumCalled
               /\ th[t].result \in {"none", "Err_SymbolNotFound"}
       /\ th[t].enumCalled => th[t].fnptr = "fn"

\* C5: a class, member or descriptor name without an entry in the table
\* reaches the managed call exactly as written in the wrapper, and a missing
\* entry is never the reason for an error: the managed call is still issued.
HasClassEntry(table, sig) ==
    \E j \in 1..Len(sig) : sig[j].k = "L" /\ sig[j].v \in DOMAIN table.classes

FallbackIsIdentity(op, calls) ==
    LET site == OpInfo(op)
        table == Table(mappings)
        key == <<site.cls, site.member, site.sig>>
    IN  \A i \in 1..Len(calls) :
           LET c == calls[i] IN
           /\ (c.fn = "find_class" /\ site.cls \notin DOMAIN table.classes)
                 => c.name = site.cls
           /\ (c.fn \in {"call_method", "call_static_method"}
                 /\ key \notin DOMAIN table.methods)
                 => c.name = site.member
           /\ (c.fn = "get_field" /\ key \notin DOMAIN table.fields)
                 => c.name = site.member
           /\ (c.fn # "find_class" /\ ~HasClassEntry(table, site.sig))
                 => c.sig = site.sig

C5_IdentityFallback ==
    /\ \A t \in SdkThreads :
          sdk[t].pc = "call" => FallbackIsIdentity(sdk[t].op, sdk[t].jni)
    /\ last.op \in MacroOps
          => /\ FallbackIsIdentity(last.op, last.jni)
             /\ Len(last.jni) >= 1

C5_Witness ==
    /\ mappings = "partial"
    /\ last.op = "Vec3d::new_obj"
    /\ last.ret.kind = "Ok"
    /\ last.jni = <<JniCall("find_class", Vec3dCls, << >>, TRUE),
                    JniCall("new_object", "<init>", SigDDDVoid, TRUE)>>

\* C6: MAPPINGS is loaded at its first access and not before, the file is
\* parsed at most once whatever the interleaving of callers, a caller that
\* got past the access sees the loaded table, and the table never changes
\* once loaded.
C6_LoadedOnce ==
    /\ [](parseCount <= 1)
    /\ [](\A t \in SdkThreads :
             sdk[t].pc \in {"lookup", "call"}
                => (onceState = "complete" /\ mappings = fileContent))
    /\ [](last.jni # NoJni => mappings = fileContent)
    /\ [][parseCount' # parseCount
            => /\ parseCount = 0
               /\ onceState = "incomplete"
               /\ \E t \in SdkThreads : sdk[t].pc = "deref" /\ sdk'[t].pc = "init"]_vars
    /\ [][mappings # "none" => mappings' = mappings]_vars

C6_Witness ==
    /\ mappings = "partial"
    /\ parseCount = 1
    /\ sdk[1].pc = "lookup"
    /\ sdk[2].pc = "lookup"

\* C7: a failed load of the mapping file is terminal: the load is not
\* attempted again by any later wrapper call and no remapped managed call is
\* ever issued after it.
C7_FailedLoadTerminal ==
    /\ [](onceState = "poisoned"
            => /\ parseCount = 1
               /\ mappings = "none"
               /\ last.jni = NoJni
               /\ \A t \in SdkThreads :
                     sdk[t].jni = NoJni /\ sdk[t].pc \notin {"init", "lookup", "call"})
    /\ [][onceState = "poisoned"
            => (onceState' = "poisoned" /\ parseCount' = parseCount)]_vars

C7_Witness ==
    /\ onceState = "poisoned"
    /\ sdk[1].pc = "panicked"
    /\ sdk[2].pc = "panicked"

\* C8: DllMain returns true for every call reason without waiting for the
\* spawned thread; it spawns exactly one thread per DLL_PROCESS_ATTACH call,
\* none for any other reason, and tears nothing down.
MainThreads == Cardinality({t \in 1..started : th[t].routine = "main_thread"})

C8_DllMain ==
    /\ [](\A r \in CallReasons :
             (~crashed /\ (r = DLL_PROCESS_ATTACH => started < MaxThreads))
                => ENABLED DllMain(r))
    /\ [][(dllReason' # dllReason \/ dllRet' # dllRet \/ MainThreads' # MainThreads)
            => /\ dllRet' = <<TRUE>>
               /\ MainThreads' = MainThreads
                     + (IF dllReason' = <<DLL_PROCESS_ATTACH>> THEN 1 ELSE 0)
               /\ \A t \in 1..started : th'[t] = th[t]
               /\ subscriberSet' = subscriberSet]_vars

C8_Witness ==
    /\ dllReason = <<DLL_PROCESS_DETACH>>
    /\ dllRet = <<TRUE>>
    /\ MainThreads = 1
    /\ th[1].routine = "main_thread"
    /\ th[1].pc = "l_enum"

\* C9: every managed lookup or call takes its names from the remapper,
\* start_client included.
C9_AllCallsRemapped ==
    \A t \in Slots : \A i \in 1..Len(th[t].jni) : th[t].jni[i].remapped

\* C10: as_entity and as_position always succeed, return a wrapper of the
\* target type holding the same managed reference and environment as the
\* source, and issue no managed call.
C10_SameReference ==
    last.op \in ViewOps
       => /\ last.ret = OkWrapper(OpInfo(last.op).ret, last.self.jobj, last.self.env)
          /\ last.jni = NoJni

C10_Witness ==
    /\ last.op = "Vec3d::as_position"
    /\ last.self = Wrapper("Vec3d", "null", 2)
    /\ last.ret = OkWrapper("Position", "null", 2)
    /\ onceState = "poisoned"

=============================================================================
